---- MODULE Spec2Model ----
(***************************************************************************)
(* A model of src/src/action_state.rs: VirtualButtonState / Timing, the    *)
(* ActionState container (update, tick, state, set_state, press, release,  *)
(* release_all and the derived queries), and ButtonThresholds.             *)
(*                                                                         *)
(* Instants are the integers 0..MaxTime, Durations are integers, and       *)
(* Option<Instant> is a sequence of length 0 (None) or 1 (Some(t)).        *)
(* Threshold values (f32) are counted in tenths: 5 is 0.5, 10 is 1.0.      *)
(***************************************************************************)
EXTENDS Integers, Sequences, FiniteSets, TLC

\* ------------------------------------------------------------------ bounds
\* Instants handed to tick / stored by set_state range over 0..MaxTime.
MaxTime == 2

Instants == 0..MaxTime

\* ------------------------------------------------- the Actionlike enumeration
\* A::iter(): the action variants, in enumeration order (doc example enum).
Iter == <<"Run", "Jump">>

Actions == {Iter[i] : i \in 1..Len(Iter)}

\* ------------------------------------------------------------ Option<Instant>
None == <<>>

Some(t) == <<t>>

is_none(o) == o = None

\* Instant - Instant. Defined for now >= instant; for now < instant the
\* library either saturates to zero or panics, depending on the toolchain:
\* this operator is the saturating outcome, the panic is the action TickPanic.
InstantSub(now, instant) == IF now >= instant THEN now - instant ELSE 0

\* --------------------------------------------------------------------- Timing
Timing(i, c, p) ==
    [instant_started |-> i, current_duration |-> c, previous_duration |-> p]

\* Timing::default() (derived): None, Duration::ZERO, Duration::ZERO
TimingDefault == Timing(None, 0, 0)

\* --------------------------------------------------------- VirtualButtonState
Pressed(timing) == [variant |-> "Pressed", timing |-> timing]

Released(timing) == [variant |-> "Released", timing |-> timing]

\* Variant: buttons start pressed
VirtualButtonStateDefault_pressed == Pressed(TimingDefault)

VirtualButtonStateDefault == Released(TimingDefault)

VirtualButtonState_pressed(s) ==
    CASE s.variant = "Pressed" -> TRUE
      [] s.variant = "Released" -> FALSE

VirtualButtonState_released(s) ==
    CASE s.variant = "Pressed" -> FALSE
      [] s.variant = "Released" -> TRUE

VirtualButtonState_just_pressed(s) ==
    CASE s.variant = "Pressed" -> is_none(s.timing.instant_started)
      [] s.variant = "Released" -> FALSE

\* Variant: just_released tests the instant only, whatever the variant
VirtualButtonState_just_released_any(s) ==
    CASE s.variant = "Pressed" -> is_none(s.timing.instant_started)
      [] s.variant = "Released" -> is_none(s.timing.instant_started)

VirtualButtonState_just_released(s) ==
    CASE s.variant = "Pressed" -> FALSE
      [] s.variant = "Released" -> is_none(s.timing.instant_started)

instant_started(s) == s.timing.instant_started

current_duration(s) == s.timing.current_duration

previous_duration(s) == s.timing.previous_duration

\* ---------------------------------------------------------------- ActionState
\* HashMap::insert
Insert(m, k, v) == [x \in (DOMAIN m) \cup {k} |-> IF x = k THEN v ELSE m[x]]

\* ActionState::default_map: insert V::default() for every action of A::iter()
RECURSIVE default_map_from(_, _)
default_map_from(m, i) ==
    IF i > Len(Iter) THEN m
    ELSE default_map_from(Insert(m, Iter[i], VirtualButtonStateDefault), i + 1)

\* Variant: the construction loop skips the first action of the enumeration
default_map_skip_first == default_map_from(<<>>, 2)

default_map == default_map_from(<<>>, 1)

\* ActionState::state: clone of the stored state, or the default if absent
state(m, action) ==
    IF action \in DOMAIN m THEN m[action] ELSE VirtualButtonStateDefault

\* Variant: the new Timing carries the old previous_duration over
press_carries_previous(m, action) ==
    IF state(m, action).variant = "Released"
    THEN Insert(m, action,
                Pressed(Timing(None, 0, state(m, action).timing.previous_duration)))
    ELSE m

\* Variant: the new Timing keeps the old current_duration
press_keeps_current(m, action) ==
    IF state(m, action).variant = "Released"
    THEN Insert(m, action,
                Pressed(Timing(None, state(m, action).timing.current_duration,
                               state(m, action).timing.current_duration)))
    ELSE m

\* Variant: pressing one action puts every other entry back to the default
press_resets_others(m, action) ==
    IF state(m, action).variant = "Released"
    THEN [x \in (DOMAIN m) \cup {action} |->
             IF x = action
             THEN Pressed(Timing(None, 0, state(m, action).timing.current_duration))
             ELSE VirtualButtonStateDefault]
    ELSE m

\* ActionState::press
press(m, action) ==
    IF state(m, action).variant = "Released"
    THEN Insert(m, action,
                Pressed(Timing(None, 0, state(m, action).timing.current_duration)))
    ELSE m

\* Variant: release without the `if let Pressed` test
release_unguarded(m, action) ==
    Insert(m, action,
           Released(Timing(None, 0, state(m, action).timing.current_duration)))

\* Variant: the new Timing carries the pressed entry's previous_duration over
release_carries_previous(m, action) ==
    IF state(m, action).variant = "Pressed"
    THEN Insert(m, action,
                Released(Timing(None, 0, state(m, action).timing.previous_duration)))
    ELSE m

\* ActionState::release
release(m, action) ==
    IF state(m, action).variant = "Pressed"
    THEN Insert(m, action,
                Released(Timing(None, 0, state(m, action).timing.current_duration)))
    ELSE m

\* ActionState::release_all: release every action of A::iter(), in order
RECURSIVE release_all_from(_, _)
release_all_from(m, i) ==
    IF i > Len(Iter) THEN m
    ELSE release_all_from(release(m, Iter[i]), i + 1)

\* Variant: the loop skips the first action of the enumeration
release_all_skip_first(m) == release_all_from(m, 2)

release_all(m) == release_all_from(m, 1)

\* Variant: the Pressed arm tests membership without the negation
update_step_pressed_inverted(m, pressed_set, action) ==
    CASE state(m, action).variant = "Pressed" ->
            IF action \in pressed_set THEN release(m, action) ELSE m
      [] state(m, action).variant = "Released" ->
            IF action \in pressed_set THEN press(m, action) ELSE m

\* Variant: the Pressed arm never releases
update_step_no_release(m, pressed_set, action) ==
    CASE state(m, action).variant = "Pressed" -> m
      [] state(m, action).variant = "Released" ->
            IF action \in pressed_set THEN press(m, action) ELSE m

\* Variant: the Released arm tests membership with a negation
update_step_released_inverted(m, pressed_set, action) ==
    CASE state(m, action).variant = "Pressed" ->
            IF action \notin pressed_set THEN release(m, action) ELSE m
      [] state(m, action).variant = "Released" ->
            IF action \notin pressed_set THEN press(m, action) ELSE m

\* One iteration of the loop of ActionState::update
update_step(m, pressed_set, action) ==
    CASE state(m, action).variant = "Pressed" ->
            IF action \notin pressed_set THEN release(m, action) ELSE m
      [] state(m, action).variant = "Released" ->
            IF action \in pressed_set THEN press(m, action) ELSE m

RECURSIVE update_from(_, _, _)
update_from(m, pressed_set, i) ==
    IF i > Len(Iter) THEN m
    ELSE update_from(update_step(m, pressed_set, Iter[i]), pressed_set, i + 1)

\* ActionState::update
update(m, pressed_set) == update_from(m, pressed_set, 1)

\* Variant: the Released arms only stamp the instant, never refresh the duration
tick_state_released_stale(s, current_instant) ==
    CASE s.variant = "Pressed" ->
            IF ~is_none(s.timing.instant_started)
            THEN Pressed([s.timing EXCEPT !.current_duration =
                     InstantSub(current_instant, s.timing.instant_started[1])])
            ELSE Pressed([s.timing EXCEPT !.instant_started = Some(current_instant),
                                          !.current_duration = 0])
      [] s.variant = "Released" ->
            IF ~is_none(s.timing.instant_started)
            THEN Released(s.timing)
            ELSE Released([s.timing EXCEPT !.instant_started = Some(current_instant),
                                           !.current_duration = 0])

\* Variant: the Pressed/None arm resets the duration but forgets the instant
tick_state_pressed_unstamped(s, current_instant) ==
    CASE s.variant = "Pressed" ->
            IF ~is_none(s.timing.instant_started)
            THEN Pressed([s.timing EXCEPT !.current_duration =
                     InstantSub(current_instant, s.timing.instant_started[1])])
            ELSE Pressed([s.timing EXCEPT !.current_duration = 0])
      [] s.variant = "Released" ->
            IF ~is_none(s.timing.instant_started)
            THEN Released([s.timing EXCEPT !.current_duration =
                     InstantSub(current_instant, s.timing.instant_started[1])])
            ELSE Released([s.timing EXCEPT !.instant_started = Some(current_instant),
                                           !.current_duration = 0])

\* Variant: every tick restamps the instant, so durations never accumulate
tick_state_restamps(s, current_instant) ==
    CASE s.variant = "Pressed" ->
            Pressed([s.timing EXCEPT !.instant_started = Some(current_instant),
                                     !.current_duration = 0])
      [] s.variant = "Released" ->
            Released([s.timing EXCEPT !.instant_started = Some(current_instant),
                                      !.current_duration = 0])

\* Variant: refreshing the duration also moves the old one to previous_duration
tick_state_shifts_previous(s, current_instant) ==
    CASE s.variant = "Pressed" ->
            IF ~is_none(s.timing.instant_started)
            THEN Pressed([s.timing EXCEPT
                     !.current_duration =
                         InstantSub(current_instant, s.timing.instant_started[1]),
                     !.previous_duration = s.timing.current_duration])
            ELSE Pressed([s.timing EXCEPT !.instant_started = Some(current_instant),
                                          !.current_duration = 0])
      [] s.variant = "Released" ->
            IF ~is_none(s.timing.instant_started)
            THEN Released([s.timing EXCEPT
                     !.current_duration =
                         InstantSub(current_instant, s.timing.instant_started[1]),
                     !.previous_duration = s.timing.current_duration])
            ELSE Released([s.timing EXCEPT !.instant_started = Some(current_instant),
                                           !.current_duration = 0])

\* Variant: the first tick stamps instant_started one instant ahead of now
tick_state_stamps_ahead(s, current_instant) ==
    CASE s.variant = "Pressed" ->
            IF ~is_none(s.timing.instant_started)
            THEN Pressed([s.timing EXCEPT !.current_duration =
                     InstantSub(current_instant, s.timing.instant_started[1])])
            ELSE Pressed([s.timing EXCEPT
                     !.instant_started = Some(current_instant + 1),
                     !.current_duration = 0])
      [] s.variant = "Released" ->
            IF ~is_none(s.timing.instant_started)
            THEN Released([s.timing EXCEPT !.current_duration =
                     InstantSub(current_instant, s.timing.instant_started[1])])
            ELSE Released([s.timing EXCEPT
                     !.instant_started = Some(current_instant + 1),
                     !.current_duration = 0])

\* The match of ActionState::tick applied to one stored state
tick_state(s, current_instant) ==
    CASE s.variant = "Pressed" ->
            IF ~is_none(s.timing.instant_started)
            THEN Pressed([s.timing EXCEPT !.current_duration =
                     InstantSub(current_instant, s.timing.instant_started[1])])
            ELSE Pressed([s.timing EXCEPT !.instant_started = Some(current_instant),
                                          !.current_duration = 0])
      [] s.variant = "Released" ->
            IF ~is_none(s.timing.instant_started)
            THEN Released([s.timing EXCEPT !.current_duration =
                     InstantSub(current_instant, s.timing.instant_started[1])])
            ELSE Released([s.timing EXCEPT !.instant_started = Some(current_instant),
                                           !.current_duration = 0])

\* ActionState::tick when the loop over map.values_mut() runs to completion
tick(m, current_instant) ==
    [a \in DOMAIN m |-> tick_state(m[a], current_instant)]

\* The entries whose current_instant - instant subtraction is out of range
Underflowing(m, current_instant) ==
    {a \in DOMAIN m : /\ ~is_none(m[a].timing.instant_started)
                      /\ current_instant < m[a].timing.instant_started[1]}

\* ActionState::tick stopped by a panic: only the entries visited before the
\* panicking one (in the hash map's iteration order) have been rewritten.
tick_partial(m, current_instant, visited) ==
    [a \in DOMAIN m |-> IF a \in visited THEN tick_state(m[a], current_instant)
                                         ELSE m[a]]

\* ActionState queries
pressed(m, action) == VirtualButtonState_pressed(state(m, action))

just_pressed(m, action) == VirtualButtonState_just_pressed(state(m, action))

released(m, action) == VirtualButtonState_released(state(m, action))

just_released(m, action) == VirtualButtonState_just_released(state(m, action))

get_pressed(m) == {Iter[i] : i \in {j \in 1..Len(Iter) : pressed(m, Iter[j])}}

get_just_pressed(m) ==
    {Iter[i] : i \in {j \in 1..Len(Iter) : just_pressed(m, Iter[j])}}

get_released(m) == {Iter[i] : i \in {j \in 1..Len(Iter) : released(m, Iter[j])}}

get_just_released(m) ==
    {Iter[i] : i \in {j \in 1..Len(Iter) : just_released(m, Iter[j])}}

\* The durations and the VirtualButtonState values a caller hands to set_state
SetDurations == {0, 1}

SetStateInputs ==
    {[variant |-> v, timing |-> Timing(i, c, p)] :
        v \in {"Pressed", "Released"},
        i \in {None} \cup {Some(t) : t \in Instants},
        c \in SetDurations, p \in SetDurations}

\* ----------------------------------------------------------- ButtonThresholds
\* The literals of the source, in tenths: 0.5 (the defaults) and 1.0 (the
\* upper limit of the assertions)
ThresholdDefault == 5

ThresholdOne == 10

ButtonThresholds(p, r) == [pressed |-> p, released |-> r]

\* impl Default for ButtonThresholds
ButtonThresholdsDefault == ButtonThresholds(ThresholdDefault, ThresholdDefault)

\* Result<(), ThresholdError>, and the panic of a failed assert!
Ok == <<"Ok">>

Err(value_set_to) == <<"Err", value_set_to>>

Panic == <<"panic">>

Outcome(th, result) == [th |-> th, result |-> result]

\* Variant: a rejected value is stored as given instead of being clamped
set_pressed_unclamped(th, value) ==
    IF ~(value >= 0) THEN Outcome(th, Panic)
    ELSE IF ~(value <= ThresholdOne) THEN Outcome(th, Panic)
    ELSE IF value >= th.released
         THEN Outcome([th EXCEPT !.pressed = value], Ok)
         ELSE Outcome([th EXCEPT !.pressed = value], Err(th.released))

\* Variant: the range assertions come after the assignment
set_pressed_late_assert(th, value) ==
    IF ~(value >= 0) \/ ~(value <= ThresholdOne)
    THEN Outcome([th EXCEPT !.pressed =
                     IF value >= th.released THEN value ELSE th.released], Panic)
    ELSE IF value >= th.released
         THEN Outcome([th EXCEPT !.pressed = value], Ok)
         ELSE Outcome([th EXCEPT !.pressed = th.released], Err(th.released))

\* ButtonThresholds::set_pressed
set_pressed(th, value) ==
    IF ~(value >= 0) THEN Outcome(th, Panic)
    ELSE IF ~(value <= ThresholdOne) THEN Outcome(th, Panic)
    ELSE IF value >= th.released
         THEN Outcome([th EXCEPT !.pressed = value], Ok)
         ELSE Outcome([th EXCEPT !.pressed = th.released], Err(th.released))

\* Variant: a rejected value is stored as given instead of being clamped
set_released_unclamped(th, value) ==
    IF ~(value >= 0) THEN Outcome(th, Panic)
    ELSE IF ~(value <= ThresholdOne) THEN Outcome(th, Panic)
    ELSE IF value <= th.pressed
         THEN Outcome([th EXCEPT !.pressed = value], Ok)
         ELSE Outcome([th EXCEPT !.released = value], Err(th.pressed))

\* Variant: the rejection branch is the one of set_pressed, copied
set_released_reject_writes_pressed(th, value) ==
    IF ~(value >= 0) THEN Outcome(th, Panic)
    ELSE IF ~(value <= ThresholdOne) THEN Outcome(th, Panic)
    ELSE IF value <= th.pressed
         THEN Outcome([th EXCEPT !.pressed = value], Ok)
         ELSE Outcome([th EXCEPT !.pressed = th.released], Err(th.released))

\* ButtonThresholds::set_released
set_released(th, value) ==
    IF ~(value >= 0) THEN Outcome(th, Panic)
    ELSE IF ~(value <= ThresholdOne) THEN Outcome(th, Panic)
    ELSE IF value <= th.pressed
         THEN Outcome([th EXCEPT !.pressed = value], Ok)
         ELSE Outcome([th EXCEPT !.released = th.pressed], Err(th.pressed))

\* The f32 values a caller hands to set_pressed / set_released: every tenth
\* of [0, 1], one value below 0 and one above 1
ThresholdInputs == (0 - 1)..(ThresholdOne + 1)

\* ---------------------------------------------------------------------- state
VARIABLES
    map,        \* ActionState.map : HashMap<A, VirtualButtonState>
    fault,      \* "none", or the panic that ended the run
    last,       \* the last call made on the ActionState
    last_tick,  \* Option: the current_instant of the most recent tick call
    origin,     \* per action: what last wrote its entry
    first_tick, \* per action: Option, the first tick since a press/release
                \* transition wrote its entry (not tracked after set_state)
    before_press, \* per action: Option, the current_duration the entry had
                \* when the last press transition replaced it, kept until
                \* the next tick or set_state of the action
    thresholds, \* a ButtonThresholds value
    th_result,  \* what the last call on thresholds returned (<<>> before any)
    th_last     \* the last call made on thresholds

asVars == <<map, fault, last, last_tick, origin, first_tick, before_press>>

thVars == <<thresholds, th_result, th_last>>

vars == <<map, fault, last, last_tick, origin, first_tick, before_press,
          thresholds, th_result, th_last>>

Call(op, action, set) == [op |-> op, action |-> action, set |-> set]

Init ==
    /\ map = default_map
    /\ fault = "none"
    /\ last = Call("default", "", {})
    /\ last_tick = None
    /\ origin = [a \in Actions |-> "default"]
    /\ first_tick = [a \in Actions |-> None]
    /\ before_press = [a \in Actions |-> None]
    /\ thresholds = ButtonThresholdsDefault
    /\ th_result = <<>>
    /\ th_last = [op |-> "default", value |-> 0]

\* History bookkeeping for a call that turned map into m2 by press/release
\* transitions: an entry whose variant switched was written by that transition.
Switched(m2, a) == state(m2, a).variant # state(map, a).variant

Transitions(m2) ==
    /\ origin' = [a \in Actions |->
                    IF Switched(m2, a)
                    THEN (IF pressed(m2, a) THEN "press" ELSE "release")
                    ELSE origin[a]]
    /\ first_tick' = [a \in Actions |->
                    IF Switched(m2, a) THEN None ELSE first_tick[a]]
    /\ before_press' = [a \in Actions |->
                    IF Switched(m2, a) /\ pressed(m2, a)
                    THEN Some(current_duration(state(map, a)))
                    ELSE before_press[a]]

Press(action) ==
    /\ fault = "none"
    /\ map' = press(map, action)
    /\ last' = Call("press", action, {})
    /\ Transitions(press(map, action))
    /\ UNCHANGED <<fault, last_tick>>
    /\ UNCHANGED thVars

Release(action) ==
    /\ fault = "none"
    /\ map' = release(map, action)
    /\ last' = Call("release", action, {})
    /\ Transitions(release(map, action))
    /\ UNCHANGED <<fault, last_tick>>
    /\ UNCHANGED thVars

ReleaseAll ==
    /\ fault = "none"
    /\ map' = release_all(map)
    /\ last' = Call("release_all", "", {})
    /\ Transitions(release_all(map))
    /\ UNCHANGED <<fault, last_tick>>
    /\ UNCHANGED thVars

Update(pressed_set) ==
    /\ fault = "none"
    /\ map' = update(map, pressed_set)
    /\ last' = Call("update", "", pressed_set)
    /\ Transitions(update(map, pressed_set))
    /\ UNCHANGED <<fault, last_tick>>
    /\ UNCHANGED thVars

\* tick returns: no subtraction is out of range, or the library saturates
Tick(current_instant) ==
    /\ fault = "none"
    /\ map' = tick(map, current_instant)
    /\ last' = Call("tick", "", {})
    /\ last_tick' = Some(current_instant)
    /\ first_tick' = [a \in Actions |->
                        IF origin[a] # "set_state" /\ is_none(first_tick[a])
                        THEN Some(current_instant)
                        ELSE first_tick[a]]
    /\ before_press' = [a \in Actions |-> None]
    /\ UNCHANGED <<fault, origin>>
    /\ UNCHANGED thVars

\* tick panics on an out-of-range subtraction (a library that does not saturate)
TickPanic(current_instant) ==
    /\ fault = "none"
    /\ Underflowing(map, current_instant) # {}
    /\ \E visited \in SUBSET ((DOMAIN map) \ Underflowing(map, current_instant)) :
          map' = tick_partial(map, current_instant, visited)
    /\ fault' = "tick"
    /\ last' = Call("tick", "", {})
    /\ before_press' = [a \in Actions |-> None]
    /\ UNCHANGED <<last_tick, origin, first_tick>>
    /\ UNCHANGED thVars

\* ActionState::set_state: overwrite the stored entry, panic if there is none
SetState(action, s) ==
    /\ fault = "none"
    /\ last' = Call("set_state", action, {})
    /\ UNCHANGED thVars
    /\ IF action \in DOMAIN map
       THEN /\ map' = [map EXCEPT ![action] = s]
            /\ origin' = [origin EXCEPT ![action] = "set_state"]
            /\ first_tick' = [first_tick EXCEPT ![action] = None]
            /\ before_press' = [before_press EXCEPT ![action] = None]
            /\ UNCHANGED <<fault, last_tick>>
       ELSE /\ fault' = "set_state"
            /\ UNCHANGED <<map, last_tick, origin, first_tick, before_press>>

Next ==
    \/ \E action \in Actions : Press(action)
    \/ \E action \in Actions : Release(action)
    \/ ReleaseAll
    \/ \E pressed_set \in SUBSET Actions : Update(pressed_set)
    \/ \E current_instant \in Instants : Tick(current_instant)
    \/ \E current_instant \in Instants : TickPanic(current_instant)
    \/ \E action \in Actions : \E s \in SetStateInputs : SetState(action, s)

Spec == Init /\ [][Next]_vars

\* The driver of the spec: press/release/release_all/update and a tick whose
\* instant comes from a monotonic clock, no set_state
TickMonotonic(current_instant) ==
    /\ IF is_none(last_tick) THEN TRUE ELSE current_instant >= last_tick[1]
    /\ Tick(current_instant)

NextMonotonic ==
    \/ \E action \in Actions : Press(action)
    \/ \E action \in Actions : Release(action)
    \/ ReleaseAll
    \/ \E pressed_set \in SUBSET Actions : Update(pressed_set)
    \/ \E current_instant \in Instants : TickMonotonic(current_instant)

SpecMonotonic == Init /\ [][NextMonotonic]_vars

\* Calls on a ButtonThresholds value; a panic ends the run
SetPressed(value) ==
    /\ th_result # Panic
    /\ thresholds' = set_pressed(thresholds, value).th
    /\ th_result' = set_pressed(thresholds, value).result
    /\ th_last' = [op |-> "set_pressed", value |-> value]
    /\ UNCHANGED asVars

SetReleased(value) ==
    /\ th_result # Panic
    /\ thresholds' = set_released(thresholds, value).th
    /\ th_result' = set_released(thresholds, value).result
    /\ th_last' = [op |-> "set_released", value |-> value]
    /\ UNCHANGED asVars

NextThresholds ==
    \/ \E value \in ThresholdInputs : SetPressed(value)
    \/ \E value \in ThresholdInputs : SetReleased(value)

SpecThresholds == Init /\ [][NextThresholds]_vars

\* =================================================================== claims
\* The call that produced the next state, when it returned normally
Returned(op) == last'.op = op /\ fault' = "none"

ReturnedOn(op, action) == Returned(op) /\ last'.action = action

\* C1: press(a) on a Released action (release(a) on a Pressed one) replaces a's
\* state by the opposite variant with instant_started absent, current_duration
\* 0 and previous_duration equal to the current_duration a had right before
\* the call; right after the call a is just_pressed (resp. just_released).
C1_TransitionRule ==
    [][\A a \in Actions :
        /\ (ReturnedOn("press", a) /\ released(map, a)) =>
              /\ state(map', a) =
                    Pressed(Timing(None, 0, current_duration(state(map, a))))
              /\ just_pressed(map', a)
        /\ (ReturnedOn("release", a) /\ pressed(map, a)) =>
              /\ state(map', a) =
                    Released(Timing(None, 0, current_duration(state(map, a))))
              /\ just_released(map', a)]_vars

\* C1 witness: a press that carried a non-zero duration of a ticked action
\* over into previous_duration.
C1_Witness ==
    /\ fault = "none"
    /\ last.op = "press"
    /\ origin[last.action] = "press"
    /\ just_pressed(map, last.action)
    /\ previous_duration(state(map, last.action)) = MaxTime

\* C2: tick(now) treats both variants alike: an absent instant_started becomes
\* Some(now) with current_duration 0; a present one is kept and
\* current_duration becomes now - instant_started. Hence after a transition,
\* a first tick at t0 and a last tick at t1 >= t0 with no transition between,
\* instant_started = Some(t0) and current_duration = t1 - t0.
C2_TickStep ==
    \A a \in Actions :
        LET s == state(map, a)
            t == state(map', a)
            now == last_tick'[1]
        IN  /\ t.variant = s.variant
            /\ is_none(instant_started(s)) =>
                  /\ instant_started(t) = Some(now)
                  /\ current_duration(t) = 0
            /\ ~is_none(instant_started(s)) =>
                  /\ instant_started(t) = instant_started(s)
                  /\ now >= instant_started(s)[1] =>
                        current_duration(t) = now - instant_started(s)[1]

C2_SinceTransition ==
    \A a \in Actions :
        (/\ fault = "none"
         /\ origin[a] \in {"press", "release"}
         /\ ~is_none(first_tick[a])
         /\ last_tick[1] >= first_tick[a][1]) =>
            /\ instant_started(state(map, a)) = first_tick[a]
            /\ current_duration(state(map, a)) = last_tick[1] - first_tick[a][1]

C2_TickRule ==
    /\ [][Returned("tick") => C2_TickStep]_vars
    /\ []C2_SinceTransition

\* C2 witness: a pressed and a released action, both ticked at 0 after their
\* transition and again at MaxTime, both showing the elapsed time.
C2_Witness ==
    /\ fault = "none"
    /\ last.op = "tick"
    /\ last_tick = Some(MaxTime)
    /\ \E a, b \in Actions :
          /\ origin[a] = "press" /\ origin[b] = "release"
          /\ first_tick[a] = Some(0) /\ first_tick[b] = Some(0)
          /\ instant_started(state(map, a)) = Some(0)
          /\ instant_started(state(map, b)) = Some(0)
          /\ current_duration(state(map, a)) = MaxTime
          /\ current_duration(state(map, b)) = MaxTime

\* C3: right after any tick call no action is just_pressed and none is
\* just_released, and every action's pressed/released status is the one it
\* had before the tick.
C3_AfterTick ==
    /\ [](last.op = "tick" /\ fault = "none" =>
            /\ get_just_pressed(map) = {}
            /\ get_just_released(map) = {})
    /\ [][Returned("tick") =>
            /\ get_pressed(map') = get_pressed(map)
            /\ get_released(map') = get_released(map)]_vars

\* C3 witness: the tick that stamped a freshly pressed action.
C3_Witness ==
    /\ fault = "none"
    /\ last.op = "tick"
    /\ \E a, b \in Actions :
          /\ origin[a] = "press" /\ first_tick[a] = last_tick
          /\ pressed(map, a) /\ ~just_pressed(map, a)
          /\ origin[b] = "release" /\ first_tick[b] = last_tick
          /\ released(map, b) /\ ~just_released(map, b)

\* A call among press, release, release_all and update that returned
ReturnedPressOrRelease ==
    last'.op \in {"press", "release", "release_all", "update"} /\ fault' = "none"

\* The returned call asks for action a to be released: release(a),
\* release_all(), or update(S) with a not in S
AsksRelease(a) ==
    \/ ReturnedOn("release", a)
    \/ Returned("release_all")
    \/ Returned("update") /\ a \notin last'.set

\* C4 as stated: after press(a) on a released action, just_pressed(a) stays
\* true up to the next tick, whatever press, release, release_all or update
\* calls are made in between.
C4_AsStated ==
    [][\A a \in Actions :
        (origin[a] = "press" /\ just_pressed(map, a) /\ ReturnedPressOrRelease)
            => just_pressed(map', a)]_vars

\* C4 amended: after press(a) on a released action, just_pressed(a) stays true
\* up to the next tick or the next call that releases a (release(a),
\* release_all(), update(S) with a not in S) or overwrites a (set_state(a, _));
\* such a releasing call ends it at once.
C4_UntilTickOrRelease ==
    [][\A a \in Actions :
        (origin[a] = "press" /\ just_pressed(map, a)) =>
            /\ (/\ fault' = "none"
                /\ last'.op # "tick"
                /\ ~AsksRelease(a)
                /\ ~ReturnedOn("set_state", a)) => just_pressed(map', a)
            /\ AsksRelease(a) => ~just_pressed(map', a)]_vars

\* C4 witness: a was pressed, then another action was released by release(b),
\* and a is still just_pressed.
C4_Witness ==
    /\ fault = "none"
    /\ last.op = "release"
    /\ origin[last.action] = "release"
    /\ just_released(map, last.action)
    /\ \E a \in Actions \ {last.action} :
          origin[a] = "press" /\ just_pressed(map, a)

\* C5: an action that has never been pressed (its entry is still the one the
\* constructor wrote) is released with previous_duration 0; before the first
\* tick it is also just_released with instant_started absent and
\* current_duration 0, and after the first tick it is not just_released.
C5_NeverPressed ==
    \A a \in Actions :
        (fault = "none" /\ origin[a] = "default") =>
            /\ released(map, a)
            /\ previous_duration(state(map, a)) = 0
            /\ is_none(last_tick) =>
                  /\ just_released(map, a)
                  /\ is_none(instant_started(state(map, a)))
                  /\ current_duration(state(map, a)) = 0
            /\ ~is_none(last_tick) => ~just_released(map, a)

\* C5 witness: a never-pressed action after the first and a later tick, while
\* another action has been pressed.
C5_Witness ==
    /\ fault = "none"
    /\ \E a, b \in Actions :
          /\ origin[a] = "default" /\ origin[b] = "press"
          /\ first_tick[a] = Some(0) /\ last_tick = Some(MaxTime)
          /\ released(map, a) /\ ~just_released(map, a)
          /\ current_duration(state(map, a)) = MaxTime

\* C6: press(a) on a pressed action and release(a) on a released action leave
\* the whole ActionState unchanged.
C6_Idempotence ==
    [][\A a \in Actions :
        /\ (ReturnedOn("press", a) /\ pressed(map, a)) => map' = map
        /\ (ReturnedOn("release", a) /\ released(map, a)) => map' = map]_vars

\* C6 witness: press(a) was called on an action that was pressed and ticked
\* before: it is not just_pressed and its duration was not reset.
C6_Witness ==
    /\ fault = "none"
    /\ last.op = "press"
    /\ origin[last.action] = "press"
    /\ pressed(map, last.action)
    /\ ~just_pressed(map, last.action)
    /\ current_duration(state(map, last.action)) > 0

\* C7: after update(S), pressed(a) holds exactly for the actions of S; an
\* action whose status had to change is just_pressed (resp. just_released)
\* with current_duration 0, and an action whose status already matched keeps
\* its state and Timing.
C7_Update ==
    [][Returned("update") =>
        /\ get_pressed(map') = last'.set
        /\ \A a \in Actions :
              /\ (released(map, a) /\ a \in last'.set) =>
                    /\ just_pressed(map', a)
                    /\ current_duration(state(map', a)) = 0
              /\ (pressed(map, a) /\ a \notin last'.set) =>
                    /\ just_released(map', a)
                    /\ current_duration(state(map', a)) = 0
              /\ (pressed(map, a) <=> a \in last'.set) =>
                    state(map', a) = state(map, a)]_vars

\* C7 witness: an update that released one action and left a pressed and
\* ticked action of the set alone.
C7_Witness ==
    /\ fault = "none"
    /\ last.op = "update"
    /\ \E a, b \in Actions :
          /\ a \in last.set /\ b \notin last.set
          /\ origin[a] = "press" /\ first_tick[a] = Some(0)
          /\ pressed(map, a) /\ ~just_pressed(map, a)
          /\ current_duration(state(map, a)) = MaxTime
          /\ origin[b] = "release" /\ just_released(map, b)
          /\ previous_duration(state(map, b)) = MaxTime

\* C8: update(S) with S = get_pressed() changes nothing in the ActionState;
\* consequently update(S) followed by update(S) equals a single update(S),
\* for every S.
C8_UpdateNoOp ==
    /\ [][(Returned("update") /\ last'.set = get_pressed(map)) => map' = map]_vars
    /\ [](\A S \in SUBSET Actions : update(update(map, S), S) = update(map, S))

\* C8 witness: update was called with exactly the pressed actions, one
\* pressed and ticked, one released and ticked; neither is just_* afterwards.
C8_Witness ==
    /\ fault = "none"
    /\ last.op = "update"
    /\ last.set = get_pressed(map)
    /\ \E a, b \in Actions :
          /\ a \in last.set /\ b \notin last.set
          /\ origin[a] = "press" /\ ~just_pressed(map, a)
          /\ current_duration(state(map, a)) > 0
          /\ origin[b] = "release" /\ ~just_released(map, b)
          /\ current_duration(state(map, b)) > 0

\* C9: an action that made a transition, was first ticked at t0 and last
\* ticked at t1 >= t0 with no transition of it in between, and then makes the
\* opposite transition, has afterwards previous_duration = t1 - t0 and
\* current_duration = 0 and is just_released (resp. just_pressed).
C9_CarryOver ==
    [][\A a \in Actions :
        (/\ ReturnedPressOrRelease
         /\ Switched(map', a)
         /\ origin[a] \in {"press", "release"}
         /\ ~is_none(first_tick[a])
         /\ last_tick[1] >= first_tick[a][1]) =>
            /\ previous_duration(state(map', a)) = last_tick[1] - first_tick[a][1]
            /\ current_duration(state(map', a)) = 0
            /\ origin[a] = "press" => just_released(map', a)
            /\ origin[a] = "release" => just_pressed(map', a)]_vars

\* C9 witness: release(a) right after the ticks at 0 and MaxTime that followed
\* the press of a; a is just_released with the whole span as
\* previous_duration.
C9_Witness ==
    /\ fault = "none"
    /\ last.op = "release"
    /\ last_tick = Some(MaxTime)
    /\ origin[last.action] = "release"
    /\ just_released(map, last.action)
    /\ current_duration(state(map, last.action)) = 0
    /\ previous_duration(state(map, last.action)) = MaxTime

\* C10: in every reachable state the map has exactly one entry for every
\* action of the enumeration and for nothing else, and set_state never takes
\* its failure path.
C10_MapComplete ==
    /\ DOMAIN map = Actions
    /\ Cardinality(DOMAIN map) = Len(Iter)
    /\ fault # "set_state"

\* C10 witness: set_state has overwritten an entry that press had written,
\* while the other action is pressed.
C10_Witness ==
    /\ fault = "none"
    /\ last.op = "set_state"
    /\ origin[last.action] = "set_state"
    /\ map[last.action] = Released(Timing(Some(MaxTime), 1, 1))
    /\ \E b \in Actions \ {last.action} : origin[b] = "press"

\* C11 as stated: tick never changes an action's variant or previous_duration,
\* and along any sequence of operations an action's previous_duration differs
\* between two consecutive states only if that step switched its variant.
C11_AsStated ==
    [][\A a \in Actions :
        /\ last'.op = "tick" =>
              /\ state(map', a).variant = state(map, a).variant
              /\ previous_duration(state(map', a)) = previous_duration(state(map, a))
        /\ previous_duration(state(map', a)) # previous_duration(state(map, a))
              => Switched(map', a)]_vars

\* C11 amended: tick never changes an action's variant or previous_duration,
\* and along any sequence of press, release, release_all, update and tick
\* calls an action's previous_duration differs between two consecutive states
\* only if that step switched its variant; set_state(a, s) is the one other
\* call that can change it, and only for a.
C11_PreviousDurationFrame ==
    [][\A a \in Actions :
        /\ last'.op = "tick" =>
              /\ state(map', a).variant = state(map, a).variant
              /\ previous_duration(state(map', a)) = previous_duration(state(map, a))
        /\ previous_duration(state(map', a)) # previous_duration(state(map, a))
              => \/ Switched(map', a)
                 \/ last'.op = "set_state" /\ last'.action = a]_vars

\* C11 witness: ticks refreshed the current_duration of a released action
\* and left the previous_duration its release had carried over.
C11_Witness ==
    /\ fault = "none"
    /\ last.op = "tick"
    /\ \E a \in Actions :
          /\ origin[a] = "release"
          /\ previous_duration(state(map, a)) = MaxTime
          /\ current_duration(state(map, a)) = 1
          /\ first_tick[a] # last_tick

\* C12: release_all() leaves every action released: a pressed action goes
\* through the release transition (just_released, current_duration 0,
\* previous_duration = its current_duration before), a released action is
\* unchanged; and a second release_all() changes nothing.
C12_ReleaseAll ==
    /\ [][Returned("release_all") =>
            /\ get_pressed(map') = {}
            /\ get_released(map') = Actions
            /\ \A a \in Actions :
                  /\ pressed(map, a) =>
                        /\ state(map', a) =
                              Released(Timing(None, 0, current_duration(state(map, a))))
                        /\ just_released(map', a)
                  /\ released(map, a) => state(map', a) = state(map, a)]_vars
    /\ [](release_all(release_all(map)) = release_all(map))
    /\ [](last.op = "release_all" /\ fault = "none" => release_all(map) = map)

\* C12 witness: release_all released one action that had been pressed for
\* MaxTime and left alone one that was released and ticked before.
C12_Witness ==
    /\ fault = "none"
    /\ last.op = "release_all"
    /\ \E a, b \in Actions :
          /\ origin[a] = "release" /\ just_released(map, a)
          /\ previous_duration(state(map, a)) = MaxTime
          /\ origin[b] = "release" /\ ~just_released(map, b)
          /\ current_duration(state(map, b)) > 0

\* ------------------------------------------------ claims on ButtonThresholds
\* The call that produced the next state and its argument
ThCalled(op) == th_last'.op = op

InRange(value) == value >= 0 /\ value <= ThresholdOne

\* C13: set_pressed(value) with 0 <= value <= 1: if value >= released,
\* pressed becomes value and the call succeeds; otherwise pressed becomes the
\* current released value and the call returns a ThresholdError carrying that
\* value. released is unchanged in both cases.
C13_SetPressed ==
    [][(ThCalled("set_pressed") /\ InRange(th_last'.value)) =>
        /\ th_last'.value >= thresholds.released =>
              /\ thresholds'.pressed = th_last'.value
              /\ th_result' = Ok
        /\ th_last'.value < thresholds.released =>
              /\ thresholds'.pressed = thresholds.released
              /\ th_result' = Err(thresholds.released)
        /\ thresholds'.released = thresholds.released]_vars

\* C13 witness: set_pressed(0.3) with released = 0.5 was clamped to 0.5 and
\* reported 0.5.
C13_Witness ==
    /\ th_last = [op |-> "set_pressed", value |-> 3]
    /\ thresholds = ButtonThresholds(5, 5)
    /\ th_result = Err(5)

\* C14 as stated: set_released(value) with 0 <= value <= 1 and
\* value <= pressed commits the value: released() = value afterwards, pressed()
\* is unchanged and the result is Ok.
C14_AsStated ==
    [][(/\ ThCalled("set_released")
        /\ InRange(th_last'.value)
        /\ th_last'.value <= thresholds.pressed) =>
            /\ thresholds'.released = th_last'.value
            /\ thresholds'.pressed = thresholds.pressed
            /\ th_result' = Ok]_vars

\* C15 as stated: from the default thresholds, after any sequence of
\* in-range set_pressed and set_released calls, every call that returns
\* success leaves pressed >= released.
C15_AsStated ==
    th_result = Ok => thresholds.pressed >= thresholds.released

\* C16: set_released(value) with 0 <= value <= 1 and value > pressed sets
\* released to the current pressed value, leaves pressed unchanged and
\* returns a ThresholdError carrying the pressed threshold.
C16_SetReleasedRejected ==
    [][(/\ ThCalled("set_released")
        /\ InRange(th_last'.value)
        /\ th_last'.value > thresholds.pressed) =>
            /\ thresholds'.released = thresholds.pressed
            /\ thresholds'.pressed = thresholds.pressed
            /\ th_result' = Err(thresholds.pressed)]_vars

\* C16 witness: with pressed raised to 0.7, set_released(0.9) was clamped to
\* 0.7 and reported 0.7.
C16_Witness ==
    /\ th_last = [op |-> "set_released", value |-> 9]
    /\ thresholds = ButtonThresholds(7, 7)
    /\ th_result = Err(7)

\* C17 as stated: when set_released(value) rejects its argument
\* (value > pressed), released is the same before and after the call.
C17_AsStated ==
    [][(/\ ThCalled("set_released")
        /\ InRange(th_last'.value)
        /\ th_last'.value > thresholds.pressed) =>
            thresholds'.released = thresholds.released]_vars

\* C17 amended: when set_released(value) rejects its argument
\* (value > pressed), the field it mutates is released, not pressed: pressed
\* is the same before and after the call, and released changes exactly when
\* it differed from pressed.
C17_RejectionWritesReleased ==
    [][(/\ ThCalled("set_released")
        /\ InRange(th_last'.value)
        /\ th_last'.value > thresholds.pressed) =>
            /\ thresholds'.pressed = thresholds.pressed
            /\ (thresholds'.released # thresholds.released)
                  <=> (thresholds.released # thresholds.pressed)]_vars

\* C17 witness: a rejected set_released left released at a value other than
\* the default, which only a rejection writes.
C17_Witness ==
    /\ th_last.op = "set_released"
    /\ th_last.value > thresholds.pressed
    /\ InRange(th_last.value)
    /\ th_result = Err(thresholds.pressed)
    /\ thresholds.released # ThresholdDefault

\* C18: set_pressed(value) and set_released(value) with value < 0 or
\* value > 1 panic instead of returning a result, before any mutation:
\* pressed and released are as they were before the call.
C18_OutOfRangePanics ==
    [][((ThCalled("set_pressed") \/ ThCalled("set_released"))
            /\ ~InRange(th_last'.value)) =>
        /\ th_result' = Panic
        /\ thresholds' = thresholds]_vars

\* C18 witness: set_pressed with a value above 1 panicked on thresholds that
\* earlier calls had moved away from the defaults.
C18_Witness ==
    /\ th_last = [op |-> "set_pressed", value |-> ThresholdOne + 1]
    /\ th_result = Panic
    /\ thresholds = ButtonThresholds(7, 7)

\* --------------------------------------------------- claims on ActionState
\* C19: in every reachable state, for every action released(a) = ~pressed(a),
\* just_pressed(a) holds exactly when a is Pressed with instant_started
\* absent, just_released(a) exactly when a is Released with instant_started
\* absent; get_pressed() and get_released() partition the actions,
\* get_just_pressed() is a subset of get_pressed(), get_just_released() a
\* subset of get_released(), and no action is both just_pressed and
\* just_released.
C19_DerivedPredicates ==
    /\ \A a \in Actions :
          /\ released(map, a) = ~pressed(map, a)
          /\ just_pressed(map, a) <=>
                (map[a].variant = "Pressed" /\ map[a].timing.instant_started = <<>>)
          /\ just_released(map, a) <=>
                (map[a].variant = "Released" /\ map[a].timing.instant_started = <<>>)
          /\ ~(just_pressed(map, a) /\ just_released(map, a))
    /\ get_pressed(map) \cup get_released(map) = Actions
    /\ get_pressed(map) \cap get_released(map) = {}
    /\ get_just_pressed(map) \subseteq get_pressed(map)
    /\ get_just_released(map) \subseteq get_released(map)

\* C19 witness: one action just pressed, the other released and ticked, so
\* the four sets differ from one another.
C19_Witness ==
    /\ fault = "none"
    /\ \E a, b \in Actions :
          /\ get_pressed(map) = {a} /\ get_just_pressed(map) = {a}
          /\ get_released(map) = {b} /\ get_just_released(map) = {}
          /\ origin[a] = "press" /\ origin[b] = "release"

\* C20: in every state reached from the default by press, release,
\* release_all, update and tick (no set_state), for every action: if
\* instant_started is absent then current_duration = 0, and if
\* instant_started = Some(t) then current_duration = (instant of the most
\* recent tick) - t.
C20_TimingConsistent ==
    \A a \in Actions :
        /\ is_none(instant_started(state(map, a))) =>
              current_duration(state(map, a)) = 0
        /\ ~is_none(instant_started(state(map, a))) =>
              /\ ~is_none(last_tick)
              /\ current_duration(state(map, a)) =
                    last_tick[1] - instant_started(state(map, a))[1]

\* C20 witness: one action stamped at 0 and ticked up to MaxTime, the other
\* pressed since with the elapsed MaxTime carried into previous_duration.
C20_Witness ==
    /\ last_tick = Some(MaxTime)
    /\ \E a, b \in Actions :
          /\ instant_started(state(map, a)) = Some(0)
          /\ current_duration(state(map, a)) = MaxTime
          /\ just_pressed(map, b)
          /\ current_duration(state(map, b)) = 0
          /\ previous_duration(state(map, b)) = MaxTime

\* C21: under a monotonic clock and without set_state, every stored
\* instant_started is <= the instant of the most recent tick, and every tick
\* call finds each stored instant_started <= its own current_instant: the
\* subtraction current_instant - instant_started is never out of range, and
\* the current_duration it writes is that exact difference, never negative.
C21_NoUnderflow ==
    [][ /\ \A a \in Actions :
              ~is_none(instant_started(state(map, a))) =>
                 /\ ~is_none(last_tick)
                 /\ instant_started(state(map, a))[1] <= last_tick[1]
        /\ Returned("tick") =>
              /\ Underflowing(map, last_tick'[1]) = {}
              /\ \A a \in Actions :
                    /\ current_duration(state(map', a)) >= 0
                    /\ ~is_none(instant_started(state(map, a))) =>
                          /\ instant_started(state(map, a))[1] <= last_tick'[1]
                          /\ current_duration(state(map', a)) =
                                last_tick'[1] - instant_started(state(map, a))[1]
      ]_vars

\* C21 witness: a tick at MaxTime has just refreshed one action stamped at 0
\* and another stamped later, both with a positive difference.
C21_Witness ==
    /\ last.op = "tick"
    /\ last_tick = Some(MaxTime)
    /\ \E a, b \in Actions :
          /\ instant_started(state(map, a)) = Some(0)
          /\ current_duration(state(map, a)) = MaxTime
          /\ instant_started(state(map, b)) = Some(1)
          /\ current_duration(state(map, b)) = MaxTime - 1

\* C22: an action that was Released with current_duration d, was pressed and is
\* released again before any tick (by release, release_all or update) ends
\* Released and just_released with instant_started absent,
\* current_duration = 0 and previous_duration = 0; when d > 0 no field of its
\* state holds d any more.
C22_CollapsedTransitions ==
    [][ \A a \in Actions :
          ( /\ fault' = "none"
            /\ last'.op \in {"release", "release_all", "update"}
            /\ ~is_none(before_press[a])
            /\ pressed(map, a)
            /\ released(map', a) )
          => /\ just_released(map', a)
             /\ is_none(instant_started(state(map', a)))
             /\ current_duration(state(map', a)) = 0
             /\ previous_duration(state(map', a)) = 0
             /\ before_press[a][1] > 0 =>
                   /\ current_duration(state(map', a)) # before_press[a][1]
                   /\ previous_duration(state(map', a)) # before_press[a][1]
      ]_vars

\* C22 witness: an action released for MaxTime was pressed and, with no tick
\* in between, released again by an update call.
C22_Witness ==
    /\ fault = "none"
    /\ last.op = "update"
    /\ \E a \in Actions :
          /\ before_press[a] = Some(MaxTime)
          /\ origin[a] = "release"
          /\ just_released(map, a)
          /\ current_duration(state(map, a)) = 0
          /\ previous_duration(state(map, a)) = 0

\* C23: press(a), release(a) and set_state(a, s) change only the entry of a:
\* the map keeps its keys and the state (variant, instant_started,
\* current_duration, previous_duration) of every other action b # a is the
\* same before and after the call.
C23_OnlyOwnEntry ==
    [][ \A a \in Actions :
          ( ReturnedOn("press", a) \/ ReturnedOn("release", a)
                                   \/ ReturnedOn("set_state", a) )
          => /\ DOMAIN map' = DOMAIN map
             /\ \A b \in Actions \ {a} :
                   /\ map'[b] = map[b]
                   /\ state(map', b).variant = state(map, b).variant
                   /\ instant_started(state(map', b)) =
                         instant_started(state(map, b))
                   /\ current_duration(state(map', b)) =
                         current_duration(state(map, b))
                   /\ previous_duration(state(map', b)) =
                         previous_duration(state(map, b))
      ]_vars

\* C23 witness: press(a) has just switched a to Pressed while the other action
\* holds a pressed, ticked entry with non-default timing.
C23_Witness ==
    /\ fault = "none"
    /\ last.op = "press"
    /\ \E b \in Actions \ {last.action} :
          /\ just_pressed(map, last.action)
          /\ origin[last.action] = "press"
          /\ pressed(map, b)
          /\ instant_started(state(map, b)) = Some(0)
          /\ current_duration(state(map, b)) = MaxTime
          /\ previous_duration(state(map, b)) = 1

====
